---- MODULE Spec2Model ----
(***************************************************************************)
(* Model of the shield resilience library: the circuit breaker state       *)
(* machine (src/src/circuit/circuitbreaker.cpp), the name-indexed breaker  *)
(* registry (src/src/detail/circuit/circuitbreakermanager.cpp) and the     *)
(* circuit composition (src/include/shield/circuit.hpp,                    *)
(* src/src/circuit/circuit.cpp).                                           *)
(*                                                                         *)
(* Time is the reading of std::chrono::steady_clock, counted in abstract   *)
(* ticks; durations (the breaker's timeout) are counted in the same unit.  *)
(***************************************************************************)
EXTENDS Integers, Sequences, FiniteSets, TLC

\* ------------------------------------------------------------------ bounds
MaxTime == 3
MaxCount == 3
MaxInst == 2
MaxThreshold == 2
MaxTimeout == 1
MaxAttempts == 2
MaxDelay == 1
MaxThreads == 2
MaxAttemptIndex == 60

\* ------------------------------------------------- program constants
\* circuit_breaker::config(): failureThreshold(5), timeout(seconds(60))
DefaultThreshold == 5
DefaultTimeout == 60

Names == {"a"}
Thresholds == 1..MaxThreshold
Timeouts == 0..MaxTimeout

VARIABLES
    now,              \* steady_clock::now()
    cbs,              \* every shield::circuit_breaker instance allocated so far (callers hold shared_ptrs)
    circuitBreakers,  \* impl::circuit_breaker_manager::circuitBreakers: name -> registered instance (0: no entry)
    returned,         \* per name, the instances handed out by create/get since the last clear()
    last,             \* the last completed registry or breaker call, with the breaker as it was before the call
    run,              \* the composition run in flight (one caller of shield::circuit::run), idle when there is none
    trail,            \* per instance: the number of on_failure calls it has received, while it has received no on_success and no on_execute_function that changed it since its construction (-1 afterwards)
    threads,          \* concurrent callers of the registry's on_success, on_failure and on_execute_function: per thread, the call it makes, its position in the call and its local variables
    fallback,         \* a shield::fallback_policy object a caller holds, with the number of times its callable has been invoked
    backoff,          \* a shield::exponential_backoff object a caller holds, with the last attempt it was asked about and the delays it returned for that attempt and the one before
    bulkhead          \* a shield::bulkhead object: max_concurrent_, current_count_ and the execute calls and tasks of its callers

vars == <<now, cbs, circuitBreakers, returned, last, run, trail, threads, fallback, backoff, bulkhead>>

\* ------------------------------------------------------------ the breaker
\* detail::circuit_breaker constructor: failureCount(0), state(closed);
\* lastFailureTime is a value-initialised time_point (the clock's epoch).
new_circuit_breaker(name, failureThreshold, timeout) ==
    [name |-> name, failureThreshold |-> failureThreshold, timeout |-> timeout,
     failureCount |-> 0, state |-> "closed", lastFailureTime |-> 0]

NoCb == [name |-> "", failureThreshold |-> 0, timeout |-> 0,
         failureCount |-> 0, state |-> "none", lastFailureTime |-> 0]

on_success_closes_open(b) ==
    [b EXCEPT !.failureCount = 0,
              !.state = IF b.state # "closed" THEN "closed" ELSE b.state]

\* detail::circuit_breaker::on_success
on_success(b) ==
    [b EXCEPT !.failureCount = 0,
              !.state = IF b.state = "half_open" THEN "closed" ELSE b.state]

on_failure_saturating(b, t) ==
    LET c == IF b.failureCount < b.failureThreshold THEN b.failureCount + 1
             ELSE b.failureCount IN
    [b EXCEPT !.failureCount = c,
              !.lastFailureTime = t,
              !.state = IF c >= b.failureThreshold /\ b.state # "open"
                        THEN "open" ELSE b.state]

on_failure_strict(b, t) ==
    LET c == b.failureCount + 1 IN
    [b EXCEPT !.failureCount = c,
              !.lastFailureTime = t,
              !.state = IF c > b.failureThreshold /\ b.state # "open"
                        THEN "open" ELSE b.state]

on_failure_early(b, t) ==
    LET c == b.failureCount + 1 IN
    [b EXCEPT !.failureCount = c,
              !.lastFailureTime = t,
              !.state = IF c >= b.failureThreshold - 1 /\ b.state # "open"
                        THEN "open" ELSE b.state]

on_failure_late(b, t) ==
    LET c == b.failureCount + 1 IN
    [b EXCEPT !.failureCount = c,
              !.lastFailureTime = t,
              !.state = IF b.failureCount >= b.failureThreshold /\ b.state # "open"
                        THEN "open" ELSE b.state]

\* detail::circuit_breaker::on_failure at clock reading t
on_failure(b, t) ==
    LET c == b.failureCount + 1 IN
    [b EXCEPT !.failureCount = c,
              !.lastFailureTime = t,
              !.state = IF c >= b.failureThreshold /\ b.state # "open"
                        THEN "open" ELSE b.state]

on_execute_function_nonstrict(b, t) ==
    IF b.state = "open"
    THEN IF t - b.lastFailureTime >= b.timeout
         THEN [cb |-> [b EXCEPT !.state = "half_open"], ret |-> TRUE]
         ELSE [cb |-> b, ret |-> FALSE]
    ELSE [cb |-> b, ret |-> TRUE]

on_execute_function_readmits(b, t) ==
    IF b.state = "open"
    THEN IF b.timeout = 0 \/ t - b.lastFailureTime > b.timeout
         THEN [cb |-> [b EXCEPT !.state = "half_open"], ret |-> TRUE]
         ELSE [cb |-> b, ret |-> FALSE]
    ELSE [cb |-> b, ret |-> TRUE]

\* detail::circuit_breaker::on_execute_function at clock reading t:
\* the breaker after the call and the value returned
on_execute_function(b, t) ==
    IF b.state = "open"
    THEN IF t - b.lastFailureTime > b.timeout
         THEN [cb |-> [b EXCEPT !.state = "half_open"], ret |-> TRUE]
         ELSE [cb |-> b, ret |-> FALSE]
    ELSE [cb |-> b, ret |-> TRUE]

\* ----------------------------------------------------------- the registry
Insts == 1..Len(cbs)

\* circuitBreakers.find(name): the registered instance, 0 for end()
find(reg, name) == reg[name]

register_circuit_breaker_last_wins(reg, name, id) == [reg EXCEPT ![name] = id]

\* impl::circuit_breaker_manager::register_circuit_breaker: first registration wins
register_circuit_breaker(reg, name, id) ==
    IF find(reg, name) = 0 THEN [reg EXCEPT ![name] = id] ELSE reg

manager_on_success_dropped(c, reg, cb) == c

\* circuit_breaker_manager::on_success(cb): forwarded to the instance
\* registered under cb's name, if any
manager_on_success(c, reg, cb) ==
    LET id == find(reg, c[cb].name) IN
    IF id # 0 THEN [c EXCEPT ![id] = on_success(c[id])] ELSE c

manager_on_failure_stale_time(c, reg, cb, t) ==
    LET id == find(reg, c[cb].name) IN
    IF id # 0 THEN [c EXCEPT ![id] = on_failure(c[id], c[id].lastFailureTime)] ELSE c

\* circuit_breaker_manager::on_failure(cb)
manager_on_failure(c, reg, cb, t) ==
    LET id == find(reg, c[cb].name) IN
    IF id # 0 THEN [c EXCEPT ![id] = on_failure(c[id], t)] ELSE c

manager_on_execute_function_direct(c, reg, cb, t) ==
    LET id == IF find(reg, c[cb].name) # 0 THEN find(reg, c[cb].name) ELSE cb
        r == on_execute_function(c[id], t) IN
    [cbs |-> [c EXCEPT ![id] = r.cb], ret |-> r.ret]

\* circuit_breaker_manager::on_execute_function(cb): false when no breaker
\* is registered under cb's name
manager_on_execute_function(c, reg, cb, t) ==
    LET id == find(reg, c[cb].name) IN
    IF id # 0
    THEN LET r == on_execute_function(c[id], t) IN
         [cbs |-> [c EXCEPT ![id] = r.cb], ret |-> r.ret]
    ELSE [cbs |-> c, ret |-> FALSE]

\* what the caller of a finished run got
NoOut == [kind |-> "none"]

Record(op, name, cb, target, ret, pre) ==
    [op |-> op, name |-> name, cb |-> cb, target |-> target, ret |-> ret,
     pre |-> pre, t |-> now, out |-> NoOut]

\* trail after instance id has received op, which took it from b to a
Bump(tr, id, op, b, a) ==
    IF id = 0 THEN tr
    ELSE [tr EXCEPT ![id] = IF @ < 0 THEN -1
                            ELSE IF op = "on_failure" THEN @ + 1
                            ELSE IF op = "on_execute_function" /\ a = b THEN @
                            ELSE -1]

\* --------------------------------------------------------- the composition
\* Values an operation returns; Zero is Ret(), the default-constructed value
Zero == 0
Values == {Zero, 42}

\* Exception types an operation throws, and the handled kind _Texcept of
\* circuit::run (shield::unused_exception by default)
OpErrors == {"std::runtime_error", "std::logic_error"}
DefaultKind == "shield::unused_exception"
Kinds == {DefaultKind, "std::runtime_error"}

\* catch (const _Texcept&) catches an exception of type ty
Catches(K, ty) ==
    \/ K = "std::exception"
    \/ K = ty
    \/ K = "std::runtime_error" /\ ty \in {"shield::runtime_error", "shield::open_circuit_exception",
                                           "shield::fallback_exception"}

NoError == [type |-> "", what |-> ""]
OpError(ty) == [type |-> ty, what |-> "operation failed"]
\* thrown by run_without_retry_policy when admission is denied
CircuitOpenError == [type |-> "std::runtime_error", what |-> "Circuit is OPEN"]
\* shield::open_circuit_exception
\* thrown by retry_policy::run after its loop ("Should never reach here")
RetryExhaustedError == [type |-> "std::runtime_error", what |-> "Retry policy exhausted"]
\* shield::fallback_exception
FallbackException ==
    [type |-> "shield::fallback_exception",
     what |-> "Fallback policy was configured to throw exceptions."]
OpenCircuitException ==
    [type |-> "shield::open_circuit_exception",
     what |-> "Circuit is OPEN and no fallback value could be obtained."]
\* shield::cannot_obtain_value_exception (its base's default message)
CannotObtainValueException ==
    [type |-> "shield::cannot_obtain_value_exception",
     what |-> "Unknown Shield runtime error"]

\* fallback_policy variants held by a circuit ("none": no policy attached)
Fallbacks == {"none", "default", "value", "callable", "throw"}
FallbackValue == 999

\* ----------------------------------------------------- fallback_policy
\* the types T at which get_value<T> is instantiated: "no_default" is a
\* type without a default constructor
ResultTypes == {"int", "std::string", "no_default"}
\* std::is_default_constructible_v<T> and T{}
is_default_constructible(T) == T # "no_default"
zero_of(T) == IF T = "int" THEN "0" ELSE ""

\* contents of a std::any: the type held and the value, written as text;
\* NoAny is the empty std::any{}
NoAny == [type |-> "void", val |-> ""]
AnyValues ==
    {[type |-> "int", val |-> "0"], [type |-> "int", val |-> "42"],
     [type |-> "std::string", val |-> ""], [type |-> "std::string", val |-> "x"],
     [type |-> "no_default", val |-> "n"]}
\* what one invocation of a fallback callable does: it returns a std::any
\* or throws
Thrown == [type |-> "throw", val |-> ""]
CallableResults == AnyValues \cup {Thrown}

\* fallback_policy::with_default, with_value(v), with_callable(f)
with_default == [fallbackType |-> "DEFAULT", specificValue |-> NoAny, fallbackCallable |-> FALSE]
with_value(v) == [fallbackType |-> "SPECIFIC_VALUE", specificValue |-> v, fallbackCallable |-> FALSE]
with_callable == [fallbackType |-> "CALLABLE", specificValue |-> NoAny, fallbackCallable |-> TRUE]
FallbackPolicies == {with_default, with_callable} \cup {with_value(v) : v \in AnyValues}

\* std::optional<T>: std::nullopt and a held value; calls is the number of
\* invocations of the callable made on the way
nullopt(calls) == [has_value |-> FALSE, val |-> "", calls |-> calls]
some(val, calls) == [has_value |-> TRUE, val |-> val, calls |-> calls]

\* an exception leaving get_value<T>: what a body without the catch (...)
\* of fallback.hpp:119-123 would let through
raised(calls) == [has_value |-> FALSE, val |-> "raised", calls |-> calls]

get_value_no_catch(p, T, f) ==
    CASE p.fallbackType = "DEFAULT" ->
            IF is_default_constructible(T) THEN some(zero_of(T), 0) ELSE nullopt(0)
      [] p.fallbackType = "SPECIFIC_VALUE" ->
            IF p.specificValue.type = T THEN some(p.specificValue.val, 0)
            ELSE nullopt(0)
      [] p.fallbackType = "CALLABLE" ->
            IF p.fallbackCallable
            THEN IF f = Thrown THEN raised(1)
                 ELSE IF f.type = T THEN some(f.val, 1) ELSE nullopt(1)
            ELSE nullopt(0)
      [] OTHER -> nullopt(0)

get_value_any_cast(p, T, f) ==
    CASE p.fallbackType = "DEFAULT" ->
            IF is_default_constructible(T) THEN some(zero_of(T), 0) ELSE nullopt(0)
      [] p.fallbackType = "SPECIFIC_VALUE" -> some(p.specificValue.val, 0)
      [] p.fallbackType = "CALLABLE" ->
            IF p.fallbackCallable /\ f # Thrown THEN some(f.val, 1) ELSE nullopt(1)
      [] OTHER -> nullopt(0)

\* fallback_policy::get_value<T>, when an invocation of the callable does f
get_value(p, T, f) ==
    CASE p.fallbackType = "DEFAULT" ->
            IF is_default_constructible(T) THEN some(zero_of(T), 0) ELSE nullopt(0)
      [] p.fallbackType = "SPECIFIC_VALUE" ->
            IF p.specificValue.type = T THEN some(p.specificValue.val, 0)
            ELSE nullopt(0)
      [] p.fallbackType = "CALLABLE" ->
            IF p.fallbackCallable
            THEN IF f = Thrown THEN nullopt(1)
                 ELSE IF f.type = T THEN some(f.val, 1) ELSE nullopt(1)
            ELSE nullopt(0)
      [] OTHER -> nullopt(0)

\* ------------------------------------------------------- exponential backoff
\* A duration in milliseconds, or the double the delay is computed in, is
\* written m * 2^e: the products of calculate_delay exceed every integer the
\* checker can hold long before they exceed long long.  Multipliers are powers
\* of two, for which std::pow and the product are exact in double.
Ms(x) == [m |-> x, e |-> 0]

\* the number of value bits of long long
LLBits == 63
LLONG_MIN == [m |-> -1, e |-> LLBits]

RECURSIVE bit_length(_)
bit_length(x) == IF x = 0 THEN 0 ELSE 1 + bit_length(x \div 2)
RECURSIVE pow2(_)
pow2(k) == IF k = 0 THEN 1 ELSE 2 * pow2(k - 1)
Min(a, b) == IF a <= b THEN a ELSE b

\* exponential_backoff(initial_delay, multiplier, max_delay)
exponential_backoff(initial_delay, multiplier, max_delay) ==
    [initial_delay |-> initial_delay, multiplier |-> multiplier,
     max_delay |-> max_delay]
InitialDelays == {0, 1, 100}
Multipliers == {1, 2, 4}
MaxDelays == {100, 500, 60000}

\* static_cast<long long>(delay_ms) of a double outside the range of long
\* long is undefined: the conversion instruction of x86-64 yields LLONG_MIN,
\* the one of AArch64 saturates to LLONG_MAX
CastOutcomes == {"LLONG_MIN", "LLONG_MAX"}

\* std::min(delay, max_delay_) for a delay v = m * 2^e >= 0 within long long
min_delay(v, max_delay) ==
    IF v.m = 0 THEN Ms(Min(0, max_delay))
    ELSE IF bit_length(v.m) + v.e > bit_length(max_delay) THEN Ms(max_delay)
    ELSE Ms(Min(v.m * pow2(v.e), max_delay))

\* exponential_backoff::calculate_delay(attempt); cast is what the conversion
\* to long long yields if the product is out of range
exponential_calculate_delay(b, attempt, cast) ==
    IF attempt <= 0 THEN Ms(b.initial_delay)
    ELSE LET delay_ms == [m |-> b.initial_delay,
                          e |-> (bit_length(b.multiplier) - 1) * (attempt - 1)]
             in_range == delay_ms.m = 0 \/ bit_length(delay_ms.m) + delay_ms.e <= LLBits IN
         IF in_range THEN min_delay(delay_ms, b.max_delay)
         ELSE IF cast = "LLONG_MIN" THEN LLONG_MIN
         ELSE Ms(b.max_delay)

\* no exponential_backoff object has been made
NoBackoff == [strategy |-> exponential_backoff(0, 1, 0), attempt |-> -1,
              delay |-> Ms(0), previous |-> Ms(0)]

\* no bulkhead object has been made
NoBulkhead == [max_concurrent |-> 0, current_count |-> 0, calls |-> <<>>]

\* no fallback_policy object has been made
NoFallback == [policy |-> [fallbackType |-> "", specificValue |-> NoAny,
                           fallbackCallable |-> FALSE],
               invoked |-> 0]

\* retry_policy: max_attempts_, the selection (retry_predicate_,
\* retry_on_all_exceptions_, retryable_exceptions_), a fixed_backoff delay
\* and whether retry_callback_ holds a function
NoRetry == [present |-> FALSE, max_attempts |-> 0, retry_on_all |-> TRUE,
            retryable |-> {}, predicate |-> "none", callback |-> FALSE,
            delay |-> 0]
RetryPolicies ==
    {[present |-> TRUE, max_attempts |-> m, retry_on_all |-> TRUE,
      retryable |-> {}, predicate |-> "none", callback |-> FALSE,
      delay |-> d] : m \in 1..MaxAttempts, d \in 0..MaxDelay}

\* retry_if predicates of the tests: "odd" retries on odd attempts only,
\* "never" refuses every error
Predicates == {"odd", "never"}
retry_predicate(p, e, attempt) ==
    IF p = "odd" THEN attempt % 2 = 1 ELSE FALSE

\* the selections a builder chain sets up: retry_on_all() (the default),
\* retry_on<std::runtime_error>() and retry_if(p)
Selections ==
    {[retry_on_all |-> TRUE, retryable |-> {}, predicate |-> "none"],
     [retry_on_all |-> FALSE, retryable |-> {"std::runtime_error"}, predicate |-> "none"]}
    \cup {[retry_on_all |-> TRUE, retryable |-> {}, predicate |-> p] : p \in Predicates}

\* policies as a caller builds them, with on_retry(callback) or without
BuiltPolicies ==
    {[present |-> TRUE, max_attempts |-> m, retry_on_all |-> sel.retry_on_all,
      retryable |-> sel.retryable, predicate |-> sel.predicate,
      callback |-> cbk, delay |-> d] :
        m \in 1..MaxAttempts, sel \in Selections, cbk \in BOOLEAN,
        d \in 0..MaxDelay}

\* retry_policy(5).retry_if(p) of the test "custom retry predicate", and the
\* same chain with fewer attempts; the default backoff is replaced by a
\* delay of 0
TestMaxAttempts == 5
PredicatePolicies ==
    {[present |-> TRUE, max_attempts |-> m, retry_on_all |-> TRUE,
      retryable |-> {}, predicate |-> p, callback |-> FALSE, delay |-> 0] :
        m \in 1..TestMaxAttempts, p \in Predicates}

\* retry_policy's copy constructor and copy assignment: every member is
\* copied except retry_callback_, which is left empty
retry_policy_copy(rp) == [rp EXCEPT !.callback = FALSE]

should_retry_any_rule(rp, e, attempt) ==
    /\ attempt < rp.max_attempts
    /\ \/ rp.predicate # "none" /\ retry_predicate(rp.predicate, e, attempt)
       \/ rp.retry_on_all
       \/ e.type \in rp.retryable

should_retry_ignores_selection(rp, e, attempt) == attempt < rp.max_attempts

\* retry_policy::should_retry
should_retry(rp, e, attempt) ==
    IF attempt >= rp.max_attempts THEN FALSE
    ELSE IF rp.predicate # "none" THEN retry_predicate(rp.predicate, e, attempt)
    ELSE IF rp.retry_on_all THEN TRUE
    ELSE e.type \in rp.retryable

\* retry_policy::should_retry: how many times the call with (e, attempt)
\* invokes retry_predicate_; the attempt limit is tested before the
\* predicate is looked at
predicate_calls(rp, e, attempt) ==
    IF attempt >= rp.max_attempts THEN 0
    ELSE IF rp.predicate # "none" THEN 1
    ELSE 0

\* fixed_backoff::calculate_delay
calculate_delay(rp, attempt) == rp.delay

\* retry_policy::on_retry: the notifications the callback has received, each
\* <<attempt, delay>>, after one more failed attempt
on_retry(rp, notes, attempt, delay) ==
    IF rp.callback THEN Append(notes, <<attempt, delay>>) ELSE notes

Idle == [pc |-> "idle"]

\* a circuit object whose run() has been entered: its members, the retry
\* loop's attempt index, and counts of what the run has done so far.  The
\* template arguments of run (the handled kind _Texcept and whether Ret is
\* default constructible) are read for the first time by the catch clause
\* of run_without_retry_policy and are drawn there.
new_run(cb, fallbackPolicy, retryPolicy, observer) ==
    [pc |-> "start", cb |-> cb, fallbackPolicy |-> fallbackPolicy,
     retryPolicy |-> retryPolicy, observer |-> observer,
     K |-> "", defaultConstructible |-> TRUE,
     attempt |-> 1, wake |-> 0, count0 |-> 0,
     opCalls |-> 0, opValue |-> Zero, opError |-> NoError, fallbackCalls |-> 0,
     successReports |-> 0, failureReports |-> 0, admissions |-> 0,
     observerCalls |-> 0, notes |-> <<>>, slept |-> 0, predicateCalls |-> 0]

\* ---------------------------------------------------------------- actions
Init ==
    /\ now = 0
    /\ cbs = <<>>
    /\ circuitBreakers = [n \in Names |-> 0]
    /\ returned = [n \in Names |-> {}]
    /\ last = Record("init", "", 0, 0, FALSE, NoCb)
    /\ run = Idle
    /\ trail = <<>>
    /\ threads = <<>>
    /\ fallback = NoFallback
    /\ backoff = NoBackoff
    /\ bulkhead = NoBulkhead

\* time passes
Tick ==
    /\ now < MaxTime
    /\ now' = now + 1
    /\ UNCHANGED <<cbs, circuitBreakers, returned, last, run, trail, threads, fallback, backoff, bulkhead>>

\* shield::circuit_breaker::create(name, failureThreshold, timeout): a new
\* instance is allocated, offered to the registry and returned to the caller
Create(name, failureThreshold, timeout) ==
    /\ Len(cbs) < MaxInst
    /\ LET id == Len(cbs) + 1 IN
       /\ cbs' = Append(cbs, new_circuit_breaker(name, failureThreshold, timeout))
       /\ circuitBreakers' = register_circuit_breaker(circuitBreakers, name, id)
       /\ returned' = [returned EXCEPT ![name] = @ \cup {id}]
       /\ last' = Record("create", name, id, circuitBreakers'[name], TRUE, NoCb)
    /\ trail' = Append(trail, 0)
    /\ UNCHANGED <<now, run, threads, fallback, backoff, bulkhead>>

\* impl::circuit_breaker_manager::get(name) (and create(cfg) on a miss, with
\* the default config): the registered instance is returned
Get(name) ==
    /\ IF find(circuitBreakers, name) = 0
       THEN /\ Len(cbs) < MaxInst
            /\ LET id == Len(cbs) + 1 IN
               /\ cbs' = Append(cbs, new_circuit_breaker(name, DefaultThreshold, DefaultTimeout))
               /\ circuitBreakers' = register_circuit_breaker(circuitBreakers, name, id)
               /\ trail' = Append(trail, 0)
       ELSE UNCHANGED <<cbs, circuitBreakers, trail>>
    /\ returned' = [returned EXCEPT ![name] = @ \cup {circuitBreakers'[name]}]
    /\ last' = Record("get", name, circuitBreakers'[name], circuitBreakers'[name], TRUE, NoCb)
    /\ UNCHANGED <<now, run, threads, fallback, backoff, bulkhead>>

\* impl::circuit_breaker_manager::create(cfg): on a miss a breaker built from
\* cfg is registered and returned; on a hit the registered instance is
\* returned and cfg is ignored
ManagerCreate(name, failureThreshold, timeout) ==
    /\ IF find(circuitBreakers, name) = 0
       THEN /\ Len(cbs) < MaxInst
            /\ LET id == Len(cbs) + 1 IN
               /\ cbs' = Append(cbs, new_circuit_breaker(name, failureThreshold, timeout))
               /\ circuitBreakers' = [circuitBreakers EXCEPT ![name] = id]
               /\ trail' = Append(trail, 0)
       ELSE UNCHANGED <<cbs, circuitBreakers, trail>>
    /\ returned' = [returned EXCEPT ![name] = @ \cup {circuitBreakers'[name]}]
    /\ last' = Record("manager_create", name, circuitBreakers'[name], circuitBreakers'[name], TRUE, NoCb)
    /\ UNCHANGED <<now, run, threads, fallback, backoff, bulkhead>>

\* impl::circuit_breaker_manager::clear
Clear ==
    /\ circuitBreakers' = [n \in Names |-> 0]
    /\ returned' = [n \in Names |-> {}]
    /\ last' = Record("clear", "", 0, 0, TRUE, NoCb)
    /\ UNCHANGED <<now, cbs, run, trail, threads, fallback, backoff, bulkhead>>

\* a caller reports a success for cb through the registry
OnSuccess(cb) ==
    LET name == cbs[cb].name
        id == find(circuitBreakers, name) IN
    /\ cbs' = manager_on_success(cbs, circuitBreakers, cb)
    /\ trail' = Bump(trail, id, "on_success", cbs, cbs')
    /\ last' = Record("on_success", name, cb, id, TRUE, IF id # 0 THEN cbs[id] ELSE NoCb)
    /\ UNCHANGED <<now, circuitBreakers, returned, run, threads, fallback, backoff, bulkhead>>

\* a caller reports a failure for cb through the registry
OnFailure(cb) ==
    LET name == cbs[cb].name
        id == find(circuitBreakers, name) IN
    /\ id # 0 => cbs[id].failureCount < MaxCount
    /\ cbs' = manager_on_failure(cbs, circuitBreakers, cb, now)
    /\ trail' = Bump(trail, id, "on_failure", cbs, cbs')
    /\ last' = Record("on_failure", name, cb, id, TRUE, IF id # 0 THEN cbs[id] ELSE NoCb)
    /\ UNCHANGED <<now, circuitBreakers, returned, run, threads, fallback, backoff, bulkhead>>

\* a caller asks the registry whether cb admits a call
OnExecuteFunction(cb) ==
    LET name == cbs[cb].name
        id == find(circuitBreakers, name)
        r == manager_on_execute_function(cbs, circuitBreakers, cb, now) IN
    /\ cbs' = r.cbs
    /\ trail' = Bump(trail, id, "on_execute_function", cbs, cbs')
    /\ last' = Record("on_execute_function", name, cb, id, r.ret, IF id # 0 THEN cbs[id] ELSE NoCb)
    /\ UNCHANGED <<now, circuitBreakers, returned, run, threads, fallback, backoff, bulkhead>>


\* circuit_breaker_manager::get_or_create(name): the instance registered
\* under name; on a miss one with the default config is created and
\* registered first, as get(name) does
get_or_create(c, reg, name) ==
    IF find(reg, name) = 0
    THEN LET id == Len(c) + 1 IN
         [cbs |-> Append(c, new_circuit_breaker(name, DefaultThreshold, DefaultTimeout)),
          reg |-> register_circuit_breaker(reg, name, id), cb |-> id]
    ELSE [cbs |-> c, reg |-> reg, cb |-> find(reg, name)]

op_returns_truthy(v) == [succeeded |-> v # Zero, result |-> v]

\* run_without_retry_policy, "Ret result = func(); succeeded = true; return
\* result;": what the sentry is told and what is returned when func() = v
op_returns(v) == [succeeded |-> TRUE, result |-> v]

handle_function_exit_success_only(c, reg, cb, success, t) ==
    IF success THEN manager_on_success(c, reg, cb) ELSE c

\* circuit::handle_function_exit(success), run by the sentry when
\* run_without_retry_policy is left
handle_function_exit(c, reg, cb, success, t) ==
    IF success THEN manager_on_success(c, reg, cb)
    ELSE manager_on_failure(c, reg, cb, t)

\* circuit::run returns to its caller: with a value (kind "value"), with
\* Ret() (kind "zero") or by throwing err (kind "throw")
Complete(c, tr, r, kind, value, err, denied, pre, id) ==
    /\ cbs' = c
    /\ trail' = tr
    /\ run' = Idle
    /\ last' = [Record("run", c[r.cb].name, r.cb, id, ~denied, pre) EXCEPT
                  !.out = [kind |-> kind, value |-> value, error |-> err,
                           denied |-> denied,
                           fallbackPolicy |-> r.fallbackPolicy,
                           retryPolicy |-> r.retryPolicy, K |-> r.K,
                           defaultConstructible |-> r.defaultConstructible,
                           attempts |-> r.attempt, opCalls |-> r.opCalls,
                           opValue |-> r.opValue, opError |-> r.opError,
                           observer |-> r.observer, notes |-> r.notes,
                           slept |-> r.slept, count0 |-> r.count0,
                           fallbackCalls |-> r.fallbackCalls,
                           successReports |-> r.successReports,
                           failureReports |-> r.failureReports,
                           admissions |-> r.admissions,
                           observerCalls |-> r.observerCalls,
                           predicateCalls |-> r.predicateCalls]]

AfterThrow_synthesized(c, tr, r, e, denied, pre, id) ==
    IF r.retryPolicy.present
       /\ should_retry(r.retryPolicy, e, r.attempt)
       /\ r.attempt < r.retryPolicy.max_attempts
    THEN LET delay == calculate_delay(r.retryPolicy, r.attempt)
             notes == on_retry(r.retryPolicy, r.notes, r.attempt, delay) IN
         /\ cbs' = c
         /\ trail' = tr
         /\ run' = [r EXCEPT !.pc = "sleeping",
                             !.wake = now + delay,
                             !.slept = @ + delay,
                             !.notes = notes,
                             !.observerCalls = Len(notes),
                             !.opError = NoError,
                             !.predicateCalls = @ + predicate_calls(r.retryPolicy, e, r.attempt),
                             !.attempt = @ + 1]
         /\ last' = [Record("attempt", c[r.cb].name, r.cb, id, ~denied, pre) EXCEPT
                       !.out = [kind |-> "retry", error |-> e,
                                attempt |-> r.attempt,
                                retryPolicy |-> r.retryPolicy]]
    ELSE Complete(c, tr, r, "throw", Zero,
                  IF r.retryPolicy.present /\ r.attempt >= r.retryPolicy.max_attempts
                  THEN RetryExhaustedError ELSE e,
                  denied, pre, id)

\* run_without_retry_policy has thrown e: without a retry policy circuit::run
\* throws it to the caller; with one, retry_policy::run decides between
\* rethrowing it and sleeping before the next attempt
AfterThrow(c, tr, r, e, denied, pre, id) ==
    IF r.retryPolicy.present
       /\ should_retry(r.retryPolicy, e, r.attempt)
       /\ r.attempt < r.retryPolicy.max_attempts
    THEN LET delay == calculate_delay(r.retryPolicy, r.attempt)
             notes == on_retry(r.retryPolicy, r.notes, r.attempt, delay) IN
         /\ cbs' = c
         /\ trail' = tr
         /\ run' = [r EXCEPT !.pc = "sleeping",
                             !.wake = now + delay,
                             !.slept = @ + delay,
                             !.notes = notes,
                             !.observerCalls = Len(notes),
                             !.opError = NoError,
                             !.predicateCalls = @ + predicate_calls(r.retryPolicy, e, r.attempt),
                             !.attempt = @ + 1]
         /\ last' = [Record("attempt", c[r.cb].name, r.cb, id, ~denied, pre) EXCEPT
                       !.out = [kind |-> "retry", error |-> e,
                                attempt |-> r.attempt,
                                retryPolicy |-> r.retryPolicy]]
    ELSE Complete(c, tr,
                  IF r.retryPolicy.present
                  THEN [r EXCEPT !.predicateCalls =
                                    @ + predicate_calls(r.retryPolicy, e, r.attempt)]
                  ELSE r,
                  "throw", Zero, e, denied, pre, id)

\* the first half of run_without_retry_policy: the sentry is armed and the
\* breaker is asked to admit the call; on a denial the function throws and
\* the sentry reports through handle_function_exit(false)
Attempt(c, reg, tr, r) ==
    LET id == find(reg, c[r.cb].name)
        pre == IF id # 0 THEN c[id] ELSE NoCb
        e == manager_on_execute_function(c, reg, r.cb, now)
        r1 == [r EXCEPT !.admissions = @ + 1,
                        !.count0 = IF r.admissions = 0 THEN pre.failureCount ELSE @] IN
    IF e.ret
    THEN /\ cbs' = e.cbs
         /\ trail' = Bump(tr, id, "on_execute_function", c, e.cbs)
         /\ run' = [r1 EXCEPT !.pc = "admitted"]
         /\ last' = Record("on_execute_function", c[r.cb].name, r.cb, id, TRUE, pre)
    ELSE AfterThrow(handle_function_exit(e.cbs, reg, r.cb, FALSE, now),
                    Bump(Bump(tr, id, "on_execute_function", c, e.cbs), id, "on_failure", c, c),
                    [r1 EXCEPT !.failureReports = @ + 1],
                    CircuitOpenError, TRUE, pre, id)

\* circuit::circuit(name, retry, timeout, fallback) followed by run<K>(op),
\* up to the admission decision of the first attempt; the constructor looks
\* the breaker up with get_or_create(name).  The constructor takes the
\* policy by value: the caller's policy object is copied into it, or moved
\* when the caller passes an rvalue (byMove)
RunByName(name, fallbackPolicy, retryPolicy, byMove) ==
    /\ run = Idle
    /\ LET g == get_or_create(cbs, circuitBreakers, name)
           tr == IF Len(g.cbs) > Len(cbs) THEN Append(trail, 0) ELSE trail
           held == IF byMove THEN retryPolicy ELSE retry_policy_copy(retryPolicy) IN
       /\ Len(g.cbs) <= MaxInst
       /\ circuitBreakers' = g.reg
       /\ returned' = [returned EXCEPT ![name] = @ \cup {g.cb}]
       /\ Attempt(g.cbs, g.reg, tr,
                  new_run(g.cb, fallbackPolicy, held, retryPolicy.callback))
    /\ \A i \in 1..Len(cbs') : cbs'[i].failureCount <= MaxCount
    /\ UNCHANGED <<now, threads, fallback, backoff, bulkhead>>

StaticRun_default_policies(name, fallbackPolicy, retryPolicy) ==
    /\ run = Idle
    /\ LET g == get_or_create(cbs, circuitBreakers, name)
           tr == IF Len(g.cbs) > Len(cbs) THEN Append(trail, 0) ELSE trail IN
       /\ Len(g.cbs) <= MaxInst
       /\ circuitBreakers' = g.reg
       /\ returned' = [returned EXCEPT ![name] = @ \cup {g.cb}]
       /\ Attempt(g.cbs, g.reg, tr, new_run(g.cb, "none", NoRetry, FALSE))
    /\ \A i \in 1..Len(cbs') : cbs'[i].failureCount <= MaxCount
    /\ UNCHANGED <<now, threads, fallback, backoff, bulkhead>>

\* the static circuit::run(func, name, retry, timeout, fallback), up to the
\* admission decision of the first attempt: "circuit cir(name, retry,
\* timeout, fallback); return cir.run<_Texcept>(func);".  retry is the
\* function's own parameter, an lvalue, so the constructor's parameter is
\* copied from it however the caller passed the policy
StaticRun(name, fallbackPolicy, retryPolicy) ==
    /\ run = Idle
    /\ LET g == get_or_create(cbs, circuitBreakers, name)
           tr == IF Len(g.cbs) > Len(cbs) THEN Append(trail, 0) ELSE trail
           cir == new_run(g.cb, fallbackPolicy, retry_policy_copy(retryPolicy),
                          retryPolicy.callback) IN
       /\ Len(g.cbs) <= MaxInst
       /\ circuitBreakers' = g.reg
       /\ returned' = [returned EXCEPT ![name] = @ \cup {g.cb}]
       /\ Attempt(g.cbs, g.reg, tr, cir)
    /\ \A i \in 1..Len(cbs') : cbs'[i].failureCount <= MaxCount
    /\ UNCHANGED <<now, threads, fallback, backoff, bulkhead>>

\* circuit::circuit(breaker), with_retry_policy / with_fallback_policy, then
\* run<K>(op) up to the admission decision of the first attempt;
\* with_retry_policy copy-assigns the caller's policy
RunByBreaker(cb, fallbackPolicy, retryPolicy) ==
    /\ run = Idle
    /\ Attempt(cbs, circuitBreakers, trail,
               new_run(cb, fallbackPolicy, retry_policy_copy(retryPolicy),
                       retryPolicy.callback))
    /\ \A i \in 1..Len(cbs') : cbs'[i].failureCount <= MaxCount
    /\ UNCHANGED <<now, circuitBreakers, returned, threads, fallback, backoff, bulkhead>>

\* the second half of run_without_retry_policy: the operation returns v and
\* the sentry reports the success
OpReturns(v) ==
    /\ run.pc = "admitted"
    /\ LET id == find(circuitBreakers, cbs[run.cb].name)
           pre == IF id # 0 THEN cbs[id] ELSE NoCb
           o == op_returns(v)
           r == [run EXCEPT !.opCalls = @ + 1, !.opValue = v,
                            !.opError = NoError,
                            !.successReports = IF o.succeeded THEN @ + 1 ELSE @,
                            !.failureReports = IF o.succeeded THEN @ ELSE @ + 1] IN
       Complete(handle_function_exit(cbs, circuitBreakers, run.cb, o.succeeded, now),
                Bump(trail, id, IF o.succeeded THEN "on_success" ELSE "on_failure", cbs, cbs),
                r, "value", o.result, NoError, FALSE, pre, id)
    /\ \A i \in 1..Len(cbs') : cbs'[i].failureCount <= MaxCount
    /\ UNCHANGED <<now, circuitBreakers, returned, threads, fallback, backoff, bulkhead>>

\* the second half of run_without_retry_policy: the operation throws an
\* exception of type ty; succeeded stays false, so the sentry reports a
\* failure whether or not catch (const _Texcept&) catches the exception.
\* K is the handled kind _Texcept of this run call.  Under a retry policy
\* the function is instantiated with AlwaysRethrow = true and rethrows
\* whether or not Ret is default constructible, so defaultConstructible is
\* recorded only when AlwaysRethrow is false.
OpThrows(ty, K, defaultConstructible) ==
    /\ run.pc = "admitted"
    /\ run.K \in {"", K}
    /\ run.retryPolicy.present => defaultConstructible
    /\ LET id == find(circuitBreakers, cbs[run.cb].name)
           pre == IF id # 0 THEN cbs[id] ELSE NoCb
           alwaysRethrow == run.retryPolicy.present
           r == [run EXCEPT !.opCalls = @ + 1, !.failureReports = @ + 1,
                            !.opError = OpError(ty), !.K = K,
                            !.defaultConstructible = defaultConstructible]
           c == handle_function_exit(cbs, circuitBreakers, run.cb, FALSE, now)
           tr == Bump(trail, id, "on_failure", cbs, cbs)
           caught == Catches(K, ty) IN
       IF caught /\ ~alwaysRethrow /\ defaultConstructible
       THEN Complete(c, tr, r, "zero", Zero, NoError, FALSE, pre, id)
       ELSE AfterThrow(c, tr, r, OpError(ty), FALSE, pre, id)
    /\ \A i \in 1..Len(cbs') : cbs'[i].failureCount <= MaxCount
    /\ UNCHANGED <<now, circuitBreakers, returned, threads, fallback, backoff, bulkhead>>

\* retry_policy::run: the sleep before the next attempt is over
RetryWake ==
    /\ run.pc = "sleeping"
    /\ now >= run.wake
    /\ Attempt(cbs, circuitBreakers, trail, run)
    /\ \A i \in 1..Len(cbs') : cbs'[i].failureCount <= MaxCount
    /\ UNCHANGED <<now, circuitBreakers, returned, threads, fallback, backoff, bulkhead>>

\* a caller makes an exponential_backoff
MakeBackoff(initial_delay, multiplier, max_delay) ==
    /\ backoff' = [strategy |-> exponential_backoff(initial_delay, multiplier, max_delay),
                   attempt |-> 0, delay |-> Ms(0), previous |-> Ms(0)]
    /\ last' = Record("exponential_backoff", "", 0, 0, TRUE, NoCb)
    /\ UNCHANGED <<now, cbs, circuitBreakers, returned, run, trail, threads, fallback, bulkhead>>

\* a caller asks the strategy for the delay after the next attempt, as the
\* loop of retry_policy::run does with attempt = 1, 2, ...
CalculateDelay(cast) ==
    /\ backoff # NoBackoff
    /\ backoff.attempt < MaxAttemptIndex
    /\ LET attempt == backoff.attempt + 1 IN
       backoff' = [backoff EXCEPT
                     !.attempt = attempt,
                     !.previous = backoff.delay,
                     !.delay = exponential_calculate_delay(backoff.strategy, attempt, cast)]
    /\ last' = Record("calculate_delay", "", 0, 0, TRUE, NoCb)
    /\ UNCHANGED <<now, cbs, circuitBreakers, returned, run, trail, threads, fallback, bulkhead>>

\* a caller makes a fallback_policy with one of the factory functions
MakeFallback(p) ==
    /\ fallback' = [policy |-> p, invoked |-> 0]
    /\ last' = Record("fallback_policy", "", 0, 0, TRUE, NoCb)
    /\ UNCHANGED <<now, cbs, circuitBreakers, returned, run, trail, threads, backoff, bulkhead>>

\* a caller calls get_value<T>() on its policy; f is what the callable does
\* if it is invoked during the call
GetValue(T, f) ==
    /\ fallback # NoFallback
    /\ fallback.invoked < MaxCount
    /\ LET r == get_value(fallback.policy, T, f) IN
       /\ fallback' = [fallback EXCEPT !.invoked = @ + r.calls]
       /\ last' = [Record("get_value", "", 0, 0, r.has_value, NoCb) EXCEPT
                     !.out = [kind |-> "get_value", policy |-> fallback.policy,
                              T |-> T, f |-> f, result |-> r,
                              invoked |-> fallback.invoked]]
    /\ UNCHANGED <<now, cbs, circuitBreakers, returned, run, trail, threads, backoff, bulkhead>>

AnyRetry == RetryPolicies \cup {NoRetry}
AnyPolicy == BuiltPolicies \cup {NoRetry}

Next ==
    \/ Tick
    \/ \E n \in Names, th \in Thresholds, to \in Timeouts : Create(n, th, to)
    \/ \E n \in Names, th \in Thresholds, to \in Timeouts : ManagerCreate(n, th, to)
    \/ \E n \in Names : Get(n)
    \/ Clear
    \/ \E cb \in Insts : OnSuccess(cb)
    \/ \E cb \in Insts : OnFailure(cb)
    \/ \E cb \in Insts : OnExecuteFunction(cb)
    \/ \E n \in Names, fb \in Fallbacks, rp \in AnyPolicy, mv \in BOOLEAN :
          RunByName(n, fb, rp, mv)
    \/ \E cb \in Insts, fb \in Fallbacks, rp \in AnyPolicy : RunByBreaker(cb, fb, rp)
    \/ \E v \in Values : OpReturns(v)
    \/ \E ty \in OpErrors, K \in Kinds, dc \in BOOLEAN : OpThrows(ty, K, dc)
    \/ RetryWake

Spec == Init /\ [][Next]_vars

\* A single breaker "a", already created and registered with some
\* configuration, driven through the registry by any number of callers.
InitBreaker ==
    /\ now = 0
    /\ \E th \in Thresholds, to \in Timeouts :
          cbs = <<new_circuit_breaker("a", th, to)>>
    /\ circuitBreakers = [n \in Names |-> IF n = "a" THEN 1 ELSE 0]
    /\ returned = [n \in Names |-> IF n = "a" THEN {1} ELSE {}]
    /\ last = Record("create", "a", 1, 1, TRUE, NoCb)
    /\ run = Idle
    /\ trail = <<0>>
    /\ threads = <<>>
    /\ fallback = NoFallback
    /\ backoff = NoBackoff
    /\ bulkhead = NoBulkhead

NextBreaker ==
    \/ Tick
    \/ \E cb \in Insts : OnSuccess(cb)
    \/ \E cb \in Insts : OnFailure(cb)
    \/ \E cb \in Insts : OnExecuteFunction(cb)

SpecBreaker == InitBreaker /\ [][NextBreaker]_vars

\* Composition runs of one caller on the registered breaker "a", built by
\* name with every fallback policy, without a retry policy or with one that
\* backs off for the shortest time, interleaved with other callers'
\* registry calls.
NextRun ==
    \/ NextBreaker
    \/ \E n \in Names, fb \in Fallbacks, rp \in AnyRetry :
          rp.delay = 0 /\ RunByName(n, fb, rp, FALSE)
    \/ \E v \in Values : OpReturns(v)
    \/ \E ty \in OpErrors, K \in Kinds, dc \in BOOLEAN : OpThrows(ty, K, dc)
    \/ RetryWake

SpecRun == InitBreaker /\ [][NextRun]_vars

\* Composition runs of one caller on the registered breaker "a", built by
\* name with no fallback policy or with a Value fallback attached, without
\* a retry policy or with one that backs off for the shortest time (the
\* sleep is at least the delay, so it may still last any time), interleaved
\* with the failure reports of other callers.
NextReturn ==
    \/ Tick
    \/ \E cb \in Insts : OnFailure(cb)
    \/ \E n \in Names, fb \in {"none", "value"}, rp \in AnyRetry :
          rp.delay = 0 /\ RunByName(n, fb, rp, FALSE)
    \/ \E v \in Values : OpReturns(v)
    \/ \E ty \in OpErrors, K \in Kinds, dc \in BOOLEAN : OpThrows(ty, K, dc)
    \/ RetryWake

SpecReturn == InitBreaker /\ [][NextReturn]_vars

\* Composition runs of a single caller on the registered breaker "a", with
\* retry policies of every selection that back off for the shortest time;
\* a policy with an on_retry callback is moved into the constructor, so
\* that the callback reaches the engine; no fallback policy.
NextRetry ==
    \/ Tick
    \/ \E n \in Names, rp \in BuiltPolicies :
          rp.delay = 0 /\ RunByName(n, "none", rp, rp.callback)
    \/ \E v \in Values : OpReturns(v)
    \/ \E ty \in OpErrors, K \in Kinds, dc \in BOOLEAN : OpThrows(ty, K, dc)
    \/ RetryWake

SpecRetry == InitBreaker /\ [][NextRetry]_vars

\* Composition runs of a single caller under retry_if policies with up to
\* TestMaxAttempts attempts, on the registered breaker "a" and on breakers
\* the constructor creates with the default config.
NextPredicate ==
    \/ Tick
    \/ \E n \in Names, rp \in PredicatePolicies : RunByName(n, "none", rp, FALSE)
    \/ \E v \in Values : OpReturns(v)
    \/ \E ty \in OpErrors : OpThrows(ty, DefaultKind, TRUE)
    \/ RetryWake

SpecPredicate == InitBreaker /\ [][NextPredicate]_vars

\* Composition runs of a single caller on the registered breaker "a", with
\* policies that retry on all exceptions, with and without an on_retry
\* callback and with every delay, handed to the circuit through its
\* constructor (by copy or by move) or through with_retry_policy.
NextObserver ==
    \/ Tick
    \/ \E n \in Names, rp \in BuiltPolicies, mv \in BOOLEAN :
          rp.retry_on_all /\ rp.predicate = "none" /\ RunByName(n, "none", rp, mv)
    \/ \E cb \in Insts, rp \in BuiltPolicies :
          rp.retry_on_all /\ rp.predicate = "none" /\ RunByBreaker(cb, "none", rp)
    \/ \E v \in Values : OpReturns(v)
    \/ \E ty \in OpErrors, K \in Kinds, dc \in BOOLEAN : OpThrows(ty, K, dc)
    \/ RetryWake

SpecObserver == InitBreaker /\ [][NextObserver]_vars

\* Composition runs of a single caller on the registered breaker "a" with
\* a retry_on<std::runtime_error>() policy and no fallback policy, where the
\* handled kind of run is std::runtime_error or std::logic_error, as in the
\* test "Circuit with retry policy - specific exception filtering".
FilterKinds == {"std::runtime_error", "std::logic_error"}

NextFilter ==
    \/ Tick
    \/ \E n \in Names, rp \in BuiltPolicies :
          /\ ~rp.retry_on_all /\ ~rp.callback /\ rp.delay = 0
          /\ RunByName(n, "none", rp, FALSE)
    \/ \E v \in Values : OpReturns(v)
    \/ \E ty \in OpErrors, K \in FilterKinds : OpThrows(ty, K, TRUE)
    \/ RetryWake

SpecFilter == InitBreaker /\ [][NextFilter]_vars

\* The registry and the instances handed out by it, at one clock reading.
NextRegistry ==
    \/ \E n \in Names, th \in Thresholds, to \in Timeouts : Create(n, th, to)
    \/ \E n \in Names, th \in Thresholds, to \in Timeouts : ManagerCreate(n, th, to)
    \/ \E n \in Names : Get(n)
    \/ Clear
    \/ \E cb \in Insts : OnSuccess(cb)
    \/ \E cb \in Insts : OnFailure(cb)
    \/ \E cb \in Insts : OnExecuteFunction(cb)

SpecRegistry == Init /\ [][NextRegistry]_vars

\* Registrations and lookups under one name, and reports and admission
\* requests made with every breaker handed out; the clock stands still, so
\* the breakers' timeouts play no part and are all 0.
NextFirstWins ==
    \/ \E n \in Names, th \in Thresholds : Create(n, th, 0)
    \/ \E n \in Names, th \in Thresholds : ManagerCreate(n, th, 0)
    \/ \E n \in Names : Get(n)
    \/ \E cb \in Insts : OnSuccess(cb)
    \/ \E cb \in Insts : OnFailure(cb)
    \/ \E cb \in Insts : OnExecuteFunction(cb)

SpecFirstWins == Init /\ [][NextFirstWins]_vars

\* Registrations under one name and clear(), with reports, admission
\* requests and runs of circuit(breaker) made through every breaker handed
\* out, registered or not; every breaker has the threshold MaxThreshold, and
\* the clock stands still, so the timeouts play no part and are all 0.
NextClear ==
    \/ \E n \in Names : Create(n, MaxThreshold, 0)
    \/ Clear
    \/ \E cb \in Insts : OnSuccess(cb)
    \/ \E cb \in Insts : OnFailure(cb)
    \/ \E cb \in Insts : OnExecuteFunction(cb)
    \/ \E cb \in Insts : RunByBreaker(cb, "none", NoRetry)
    \/ \E v \in Values : OpReturns(v)
    \/ OpThrows("std::runtime_error", DefaultKind, TRUE)

SpecClear == Init /\ [][NextClear]_vars

\* Compositions built from a name and compositions built from a breaker
\* reference that create() returned, with no retry and no fallback policy,
\* while breakers are created and the registry is cleared.
NextReference ==
    \/ \E n \in Names, th \in Thresholds, to \in Timeouts : Create(n, th, to)
    \/ Clear
    \/ \E n \in Names : RunByName(n, "none", NoRetry, FALSE)
    \/ \E cb \in Insts : RunByBreaker(cb, "none", NoRetry)
    \/ \E v \in Values : OpReturns(v)
    \/ \E ty \in OpErrors : OpThrows(ty, DefaultKind, TRUE)

SpecReference == Init /\ [][NextReference]_vars

\* Runs of a single caller on the registered breaker "a" through the
\* static circuit::run and through compositions into whose constructor the
\* caller moves the policy, with policies that retry on all exceptions and
\* carry an on_retry callback; the handled kind is std::runtime_error.
StaticPolicies ==
    {rp \in AnyPolicy : /\ rp.retry_on_all /\ rp.predicate = "none" /\ rp.delay = 0
                        /\ rp.present => rp.callback}

NextStatic ==
    \/ Tick
    \/ \E n \in Names, fb \in {"none", "value"}, rp \in StaticPolicies :
          StaticRun(n, fb, rp)
    \/ \E n \in Names, fb \in {"none", "value"}, rp \in StaticPolicies :
          RunByName(n, fb, rp, TRUE)
    \/ \E v \in Values : OpReturns(v)
    \/ \E ty \in OpErrors : OpThrows(ty, "std::runtime_error", TRUE)
    \/ RetryWake

SpecStatic == InitBreaker /\ [][NextStatic]_vars

\* Fallback policies of every variant, asked for values of every type.
NextFallback ==
    \/ \E p \in FallbackPolicies : MakeFallback(p)
    \/ \E T \in ResultTypes, f \in CallableResults : GetValue(T, f)

SpecFallback == Init /\ [][NextFallback]_vars

\* An exponential_backoff object asked for the delays of successive attempts.
NextBackoff ==
    \/ \E i \in InitialDelays, m \in Multipliers, c \in MaxDelays : MakeBackoff(i, m, c)
    \/ \E cast \in CastOutcomes : CalculateDelay(cast)

SpecBackoff == Init /\ [][NextBackoff]_vars

\* ------------------------------------------------- concurrent callers
\* Threads that each make one call on the registered breaker "a" through
\* the registry.  A call is taken apart into its accesses to the registry's
\* mutex, to the breaker's mutex and to the breaker's members, one step per
\* access, so that the steps of different threads interleave wherever the
\* mutexes let them.
Threads == 1..MaxThreads
Calls == {"on_success", "on_failure", "on_execute_function"}

\* a thread before its call: t is the clock reading its call uses, ret the
\* value on_execute_function returns to it
new_thread == [pc |-> "idle", op |-> "", t |-> 0, ret |-> FALSE]

manager_mutex_free_unguarded(ts, i) == TRUE

\* std::lock_guard<std::recursive_mutex> lock(mutex) at the top of the
\* registry's on_success, on_failure and on_execute_function: thread i gets
\* the mutex when no other thread is inside one of these functions
manager_mutex_free(ts, i) ==
    \A j \in DOMAIN ts \ {i} : ts[j].pc \in {"idle", "done"}

\* std::lock_guard<std::mutex> lock(mutex) at the top of
\* detail::circuit_breaker::on_success and on_failure (on_execute_function
\* takes no lock of the breaker)
breaker_mutex_free(ts, i) ==
    \A j \in DOMAIN ts \ {i} :
        ts[j].pc \notin {"success_state", "failure_time", "failure_state"}

\* thread i moves to position pc
Goto(i, pc) == threads' = [threads EXCEPT ![i].pc = pc]

\* circuit_breaker_manager::on_success / on_failure / on_execute_function:
\* the registry's mutex is taken, the breaker is looked up by name and the
\* function registered for it is called
ThreadCall(i, op) ==
    /\ threads[i].pc = "idle"
    /\ manager_mutex_free(threads, i)
    /\ threads' = [threads EXCEPT ![i] =
                     [@ EXCEPT !.pc = IF find(circuitBreakers, "a") # 0
                                      THEN "called" ELSE "return",
                               !.op = op, !.t = now]]
    /\ UNCHANGED <<now, cbs, circuitBreakers, returned, last, run, trail, fallback, backoff, bulkhead>>

\* on_success: lock_guard; failureCount = 0
SuccessReset(i) ==
    /\ threads[i].pc = "called" /\ threads[i].op = "on_success"
    /\ breaker_mutex_free(threads, i)
    /\ cbs' = [cbs EXCEPT ![1].failureCount = 0]
    /\ Goto(i, "success_state")
    /\ UNCHANGED <<now, circuitBreakers, returned, last, run, trail, fallback, backoff, bulkhead>>

\* on_success: if (state == half_open) state = closed; the lock is released
SuccessClose(i) ==
    /\ threads[i].pc = "success_state"
    /\ cbs' = [cbs EXCEPT ![1].state = IF @ = "half_open" THEN "closed" ELSE @]
    /\ Goto(i, "return")
    /\ UNCHANGED <<now, circuitBreakers, returned, last, run, trail, fallback, backoff, bulkhead>>

\* on_failure: lock_guard; ++failureCount
FailureCount(i) ==
    /\ threads[i].pc = "called" /\ threads[i].op = "on_failure"
    /\ breaker_mutex_free(threads, i)
    /\ cbs[1].failureCount < MaxCount
    /\ cbs' = [cbs EXCEPT ![1].failureCount = @ + 1]
    /\ Goto(i, "failure_time")
    /\ UNCHANGED <<now, circuitBreakers, returned, last, run, trail, fallback, backoff, bulkhead>>

\* on_failure: lastFailureTime = steady_clock::now()
FailureTime(i) ==
    /\ threads[i].pc = "failure_time"
    /\ cbs' = [cbs EXCEPT ![1].lastFailureTime = now]
    /\ threads' = [threads EXCEPT ![i] = [@ EXCEPT !.pc = "failure_state", !.t = now]]
    /\ UNCHANGED <<now, circuitBreakers, returned, last, run, trail, fallback, backoff, bulkhead>>

\* on_failure: if (failureCount >= failureThreshold && state != open)
\* state = open; the lock is released
FailureOpen(i) ==
    /\ threads[i].pc = "failure_state"
    /\ cbs' = [cbs EXCEPT ![1].state =
                 IF cbs[1].failureCount >= cbs[1].failureThreshold /\ @ # "open"
                 THEN "open" ELSE @]
    /\ Goto(i, "return")
    /\ UNCHANGED <<now, circuitBreakers, returned, last, run, trail, fallback, backoff, bulkhead>>

\* on_execute_function: if (state == open)
ExecuteState(i) ==
    /\ threads[i].pc = "called" /\ threads[i].op = "on_execute_function"
    /\ Goto(i, IF cbs[1].state = "open" THEN "execute_timeout" ELSE "execute_return")
    /\ UNCHANGED <<now, cbs, circuitBreakers, returned, last, run, trail, fallback, backoff, bulkhead>>

\* on_execute_function: now = steady_clock::now();
\* if (now - lastFailureTime > timeout) ... else return false
ExecuteTimeout(i) ==
    /\ threads[i].pc = "execute_timeout"
    /\ threads' = [threads EXCEPT ![i] =
                     [@ EXCEPT !.pc = IF now - cbs[1].lastFailureTime > cbs[1].timeout
                                      THEN "execute_half_open" ELSE "return",
                               !.t = now, !.ret = FALSE]]
    /\ UNCHANGED <<now, cbs, circuitBreakers, returned, last, run, trail, fallback, backoff, bulkhead>>

\* on_execute_function: state = half_open
ExecuteHalfOpen(i) ==
    /\ threads[i].pc = "execute_half_open"
    /\ cbs' = [cbs EXCEPT ![1].state = "half_open"]
    /\ Goto(i, "execute_return")
    /\ UNCHANGED <<now, circuitBreakers, returned, last, run, trail, fallback, backoff, bulkhead>>

\* on_execute_function: return state != open
ExecuteReturn(i) ==
    /\ threads[i].pc = "execute_return"
    /\ threads' = [threads EXCEPT ![i] =
                     [@ EXCEPT !.pc = "return", !.ret = cbs[1].state # "open"]]
    /\ UNCHANGED <<now, cbs, circuitBreakers, returned, last, run, trail, fallback, backoff, bulkhead>>

\* the registry's function returns and its lock_guard releases the mutex
ThreadReturn(i) ==
    /\ threads[i].pc = "return"
    /\ Goto(i, "done")
    /\ UNCHANGED <<now, cbs, circuitBreakers, returned, last, run, trail, fallback, backoff, bulkhead>>

\* a breaker that has received k failure reports at clock reading 0
RECURSIVE reported(_, _)
reported(b, k) == IF k = 0 THEN b ELSE reported(on_failure(b, 0), k - 1)

\* The threads start on the registered breaker "a", fresh or after some
\* failure reports; last.pre keeps the breaker as the threads found it.
InitThreads ==
    /\ now = 0
    /\ \E th \in Thresholds, to \in Timeouts, k \in 0..MaxThreshold :
          /\ k <= th
          /\ cbs = <<reported(new_circuit_breaker("a", th, to), k)>>
          /\ last = Record("threads", "a", 1, 1, TRUE, cbs[1])
    /\ circuitBreakers = [n \in Names |-> IF n = "a" THEN 1 ELSE 0]
    /\ returned = [n \in Names |-> IF n = "a" THEN {1} ELSE {}]
    /\ run = Idle
    /\ trail = <<-1>>
    /\ threads = [i \in Threads |-> new_thread]
    /\ fallback = NoFallback
    /\ backoff = NoBackoff
    /\ bulkhead = NoBulkhead

NextThreads ==
    \/ Tick
    \/ \E i \in Threads, op \in Calls : ThreadCall(i, op)
    \/ \E i \in Threads : SuccessReset(i)
    \/ \E i \in Threads : SuccessClose(i)
    \/ \E i \in Threads : FailureCount(i)
    \/ \E i \in Threads : FailureTime(i)
    \/ \E i \in Threads : FailureOpen(i)
    \/ \E i \in Threads : ExecuteState(i)
    \/ \E i \in Threads : ExecuteTimeout(i)
    \/ \E i \in Threads : ExecuteHalfOpen(i)
    \/ \E i \in Threads : ExecuteReturn(i)
    \/ \E i \in Threads : ThreadReturn(i)

SpecThreads == InitThreads /\ [][NextThreads]_vars

\* ---------------------------------------------------------------- bulkhead
\* bulkhead(max_concurrent): current_count_(0).  calls holds, for each thread
\* that calls execute, the position of its call and of the task the call
\* schedules: "idle" (no call in progress), "admitted" (the capacity test
\* has been passed, the slot is not taken yet), "queued" (the slot is taken
\* and the task is handed to the executor), "running" (the executor's
\* thread is inside f()); outcome is how the thread's last call ended
new_bulkhead(max_concurrent) ==
    [max_concurrent |-> max_concurrent, current_count |-> 0,
     calls |-> [i \in Threads |-> [pc |-> "idle", outcome |-> "none"]]]

\* "if (current_count_ >= max_concurrent_)"
at_capacity(b) == b.current_count >= b.max_concurrent

task_exit_leaks_on_throw(b, i, outcome) ==
    [b EXCEPT !.current_count = IF outcome = "raised" THEN @ ELSE @ - 1,
              !.calls[i] = [pc |-> "idle", outcome |-> outcome]]

\* the continuation leaves f(): "current_count_--" on the return path and in
\* catch (...)
task_exit(b, i, outcome) ==
    [b EXCEPT !.current_count = @ - 1,
              !.calls[i] = [pc |-> "idle", outcome |-> outcome]]

\* a caller constructs the bulkhead
MakeBulkhead(max_concurrent) ==
    /\ bulkhead = NoBulkhead
    /\ bulkhead' = new_bulkhead(max_concurrent)
    /\ last' = Record("bulkhead", "", 0, 0, TRUE, NoCb)
    /\ UNCHANGED <<now, cbs, circuitBreakers, returned, run, trail, threads, fallback, backoff>>

\* thread i enters execute and tests the capacity; at capacity the call
\* returns a future holding "Bulkhead capacity exceeded" without running f
ExecuteTest(i) ==
    /\ bulkhead # NoBulkhead
    /\ bulkhead.calls[i].pc = "idle"
    /\ bulkhead' =
          IF at_capacity(bulkhead)
          THEN [bulkhead EXCEPT !.calls[i] = [pc |-> "idle", outcome |-> "rejected"]]
          ELSE [bulkhead EXCEPT !.calls[i] = [pc |-> "admitted", outcome |-> "none"]]
    /\ last' = Record("execute", "", i, 0, ~at_capacity(bulkhead), NoCb)
    /\ UNCHANGED <<now, cbs, circuitBreakers, returned, run, trail, threads, fallback, backoff>>

\* "current_count_++" and folly::via(executor).thenValue(...): the slot is
\* taken and the task is scheduled; execute returns the future
ExecuteTake(i) ==
    /\ bulkhead # NoBulkhead
    /\ bulkhead.calls[i].pc = "admitted"
    /\ bulkhead' = [bulkhead EXCEPT !.current_count = @ + 1,
                                    !.calls[i].pc = "queued"]
    /\ last' = Record("schedule", "", i, 0, TRUE, NoCb)
    /\ UNCHANGED <<now, cbs, circuitBreakers, returned, run, trail, threads, fallback, backoff>>

\* the executor starts the continuation: f() is entered
TaskStart(i) ==
    /\ bulkhead # NoBulkhead
    /\ bulkhead.calls[i].pc = "queued"
    /\ bulkhead' = [bulkhead EXCEPT !.calls[i].pc = "running"]
    /\ last' = Record("task", "", i, 0, TRUE, NoCb)
    /\ UNCHANGED <<now, cbs, circuitBreakers, returned, run, trail, threads, fallback, backoff>>

\* f() returns a value
TaskReturns(i) ==
    /\ bulkhead # NoBulkhead
    /\ bulkhead.calls[i].pc = "running"
    /\ bulkhead' = task_exit(bulkhead, i, "returned")
    /\ last' = Record("task_exit", "", i, 0, TRUE, NoCb)
    /\ UNCHANGED <<now, cbs, circuitBreakers, returned, run, trail, threads, fallback, backoff>>

\* f() throws
TaskThrows(i) ==
    /\ bulkhead # NoBulkhead
    /\ bulkhead.calls[i].pc = "running"
    /\ bulkhead' = task_exit(bulkhead, i, "raised")
    /\ last' = Record("task_exit", "", i, 0, FALSE, NoCb)
    /\ UNCHANGED <<now, cbs, circuitBreakers, returned, run, trail, threads, fallback, backoff>>

\* the tasks inside f(), and the accepted tasks that have not finished
Running == {i \in DOMAIN bulkhead.calls : bulkhead.calls[i].pc = "running"}
Accepted == {i \in DOMAIN bulkhead.calls : bulkhead.calls[i].pc \in {"queued", "running"}}

\* Threads calling execute on one bulkhead, each call interleaved freely
\* with the others and with the tasks on the executor's threads.
NextBulkhead ==
    \/ \E mc \in 0..MaxThreads : MakeBulkhead(mc)
    \/ \E i \in Threads : ExecuteTest(i)
    \/ \E i \in Threads : ExecuteTake(i)
    \/ \E i \in Threads : TaskStart(i)
    \/ \E i \in Threads : TaskReturns(i)
    \/ \E i \in Threads : TaskThrows(i)

SpecBulkhead == Init /\ [][NextBulkhead]_vars

\* ------------------------------------------------------------- the claims
\* The breaker a registry call reached, as it is after the call; last.t is
\* the clock reading at the call
Post == cbs[last.target]
Reached(op) == last.op = op /\ last.target # 0

\* C1: admit (on_execute_function) returns true and changes nothing when the
\* breaker is Closed or HalfOpen; when it is Open it returns true and moves
\* the breaker to HalfOpen exactly when now - lastFailureTime > timeout, and
\* otherwise returns false and leaves the breaker Open.
C1_AdmitContract ==
    Reached("on_execute_function") =>
        /\ last.pre.state \in {"closed", "half_open"} =>
              last.ret = TRUE /\ Post = last.pre
        /\ last.pre.state = "open" =>
              IF last.t - last.pre.lastFailureTime > last.pre.timeout
              THEN last.ret = TRUE /\ Post = [last.pre EXCEPT !.state = "half_open"]
              ELSE last.ret = FALSE /\ Post = last.pre

C1_Witness ==
    /\ Reached("on_execute_function")
    /\ last.pre.state = "open"
    /\ last.ret = TRUE
    /\ Post.state = "half_open"

\* C2: a freshly created breaker with threshold t >= 1 that has received k
\* on_failure calls and nothing else has failureCount = k and is Closed when
\* k < t and Open when k >= t.
C2_ConsecutiveFailures ==
    \A i \in Insts :
        trail[i] >= 0 =>
            /\ cbs[i].failureCount = trail[i]
            /\ cbs[i].state = IF trail[i] < cbs[i].failureThreshold
                              THEN "closed" ELSE "open"

C2_Witness ==
    \E i \in Insts :
        /\ cbs[i].failureThreshold > 1
        /\ trail[i] = cbs[i].failureThreshold
        /\ cbs[i].state = "open"

\* C3 (as claimed): from every reachable HalfOpen state one on_failure moves
\* the breaker to Open and sets lastFailureTime to the current time.
C3_HalfOpenFailureReopens ==
    Reached("on_failure") /\ last.pre.state = "half_open" =>
        Post.state = "open" /\ Post.lastFailureTime = last.t

\* C4: on_success sets failureCount to 0 in every state; it moves a HalfOpen
\* breaker to Closed, leaves a Closed breaker Closed, and changes nothing else.
C4_SuccessContract ==
    Reached("on_success") =>
        /\ Post.failureCount = 0
        /\ Post.state = IF last.pre.state = "half_open" THEN "closed" ELSE last.pre.state
        /\ Post = [last.pre EXCEPT !.failureCount = Post.failureCount, !.state = Post.state]

C4_Witness ==
    /\ Reached("on_success")
    /\ last.pre.state = "half_open"
    /\ last.pre.failureCount > 0
    /\ Post.state = "closed"

\* C5 (as claimed): all create and get calls for one name since the last
\* clear() return the same instance, so the failure count and the state read
\* through any two of the returned references agree.
C5_SameNameSameInstance ==
    \A n \in Names :
        /\ Cardinality(returned[n]) <= 1
        /\ \A i, j \in returned[n] :
              /\ cbs[i].failureCount = cbs[j].failureCount
              /\ cbs[i].state = cbs[j].state

\* ------------------------------------------------ claims on the composition
Out == last.out
RunDone == last.op = "run"
\* a run whose first admission request was denied
DeniedAtOnce == RunDone /\ Out.denied /\ Out.attempts = 1
\* built with no retry policy and no fallback policy, default handled kind
Plain(o) ==
    /\ ~o.retryPolicy.present
    /\ o.fallbackPolicy = "none"
    /\ o.K \in {"", DefaultKind}
\* the value a fallback policy of variant fb yields
ValueOf(fb) == IF fb = "default" THEN Zero ELSE FallbackValue

\* C6 (as claimed): when the failure raised by a plain run (by name, no
\* retry, no fallback, default handled kind) is the t-th consecutive failure
\* of a breaker with threshold t, the breaker is Open with failureCount = t;
\* a plain run that is then denied raises open_circuit_exception.
C6_ThresholdRunsThenOpenCircuit ==
    RunDone /\ Plain(Out) /\ last.target # 0 =>
        /\ Out.kind = "throw" /\ ~Out.denied /\ trail[last.target] = Post.failureThreshold =>
              Post.state = "open" /\ Post.failureCount = Post.failureThreshold
        /\ Out.denied /\ last.pre.state = "open"
              /\ last.pre.failureCount = last.pre.failureThreshold =>
              Out.kind = "throw" /\ Out.error = OpenCircuitException

\* C7 (as claimed): a run that is denied admission and whose fallback policy
\* is Value, Callable or Default returns the fallback's value, without
\* invoking the operation, and invokes a Callable fallback exactly once.
C7_DeniedRunReturnsFallback ==
    DeniedAtOnce /\ Out.fallbackPolicy \in {"value", "callable", "default"} =>
        /\ Out.kind = "value"
        /\ Out.value = ValueOf(Out.fallbackPolicy)
        /\ Out.opCalls = 0
        /\ Out.fallbackPolicy = "callable" => Out.fallbackCalls = 1

\* C8 (as claimed): a run that is denied admission with no fallback policy
\* attached raises open_circuit_exception ("Circuit is OPEN and no fallback
\* value could be obtained.") and does not invoke the operation.
C8_DeniedRunRaisesOpenCircuit ==
    DeniedAtOnce /\ Out.fallbackPolicy = "none" =>
        /\ Out.kind = "throw"
        /\ Out.error = OpenCircuitException
        /\ Out.opCalls = 0

\* C9 (as claimed): a run that is denied admission sends no report to the
\* breaker: state, failureCount and lastFailureTime are as before the run.
C9_DeniedRunLeavesBreaker ==
    DeniedAtOnce =>
        /\ Out.successReports = 0
        /\ Out.failureReports = 0
        /\ last.target # 0 => Post = last.pre

\* C10: an admitted run whose operation returns normally returns the
\* operation's value unchanged, whatever it is, and reports exactly one
\* success: the breaker's failureCount is then 0 and a HalfOpen breaker is
\* Closed.
C10_SuccessfulRun ==
    RunDone /\ Out.kind = "value" =>
        /\ Out.value = Out.opValue
        /\ Out.successReports = 1
        /\ last.target # 0 =>
              /\ Post.failureCount = 0
              /\ last.pre.state = "half_open" => Post.state = "closed"

C10_Witness ==
    /\ RunDone
    /\ Out.kind = "value"
    /\ Out.opValue = Zero
    /\ last.target # 0
    /\ last.pre.state = "half_open"
    /\ last.pre.failureCount > 0
    /\ Post.state = "closed"

\* the last invocation of the operation in a finished run was admitted and
\* raised an error; Handled: the handled kind K of the run catches it
OpRaised == RunDone /\ ~Out.denied /\ Out.opError # NoError
Handled == Catches(Out.K, Out.opError.type)

\* C11 (as claimed): when the one admitted invocation of the operation
\* raises an error of the handled kind K and a Value, Callable or Default
\* fallback is attached, run reports exactly one failure and returns the
\* fallback's value.
C11_HandledErrorReturnsFallback ==
    OpRaised /\ Handled /\ Out.opCalls = 1
        /\ Out.fallbackPolicy \in {"value", "callable", "default"} =>
        /\ Out.kind # "throw"
        /\ Out.value = ValueOf(Out.fallbackPolicy)
        /\ Out.failureReports = 1

\* C12: with no retry policy and no fallback policy, when the admitted
\* operation raises an error of the handled kind K and the result type is
\* default constructible, run invokes the operation once, reports exactly
\* one failure (failureCount goes up by 1) and returns the zero value.
C12_HandledErrorReturnsZero ==
    OpRaised /\ Handled /\ ~Out.retryPolicy.present
        /\ Out.fallbackPolicy = "none" /\ Out.defaultConstructible =>
        /\ Out.kind = "zero"
        /\ Out.value = Zero
        /\ Out.opCalls = 1
        /\ Out.failureReports = 1
        /\ last.target # 0 => Post.failureCount = last.pre.failureCount + 1

C12_Witness ==
    /\ OpRaised /\ Handled /\ ~Out.retryPolicy.present
    /\ Out.fallbackPolicy = "none" /\ Out.defaultConstructible
    /\ Out.kind = "zero"
    /\ last.target # 0
    /\ Post.failureCount = 2

\* C13 (as claimed): a run with a Throw fallback policy that is denied
\* admission, or whose admitted operation raises an error of the handled
\* kind K, raises fallback_exception.
C13_ThrowFallbackRaises ==
    RunDone /\ Out.fallbackPolicy = "throw"
        /\ (Out.denied \/ (OpRaised /\ Handled)) =>
        /\ Out.kind = "throw"
        /\ Out.error.type = FallbackException.type

RetryDone == RunDone /\ Out.retryPolicy.present
\* the error thrown to the engine by its last invocation
LastThrown == IF Out.denied THEN CircuitOpenError ELSE Out.opError
\* delay_for(1) + ... + delay_for(k - 1)
RECURSIVE SleepTotal(_, _)
SleepTotal(rp, k) ==
    IF k <= 1 THEN 0 ELSE SleepTotal(rp, k - 1) + calculate_delay(rp, k - 1)
\* the selection of policy rp refuses error e at attempt n: its predicate
\* returns false or, without a predicate, e's kind is not in its kind set
Rejects(rp, e, n) ==
    IF rp.predicate # "none" THEN ~retry_predicate(rp.predicate, e, n)
    ELSE ~rp.retry_on_all /\ e.type \notin rp.retryable

\* C15 (as claimed): a retry run with max_attempts >= 1 makes at least one
\* and at most max_attempts invocations, and the observer the caller gave
\* the policy is called exactly (invocations - 1) times.
C15_InvocationsAndObserverCalls ==
    RetryDone =>
        /\ Out.admissions >= 1
        /\ Out.admissions <= Out.retryPolicy.max_attempts
        /\ Out.observer => Out.observerCalls = Out.admissions - 1

\* C16: a retry run that ends in failure raises the error thrown by its
\* last invocation, never the engine's own "Retry policy exhausted".
C16_LastErrorPropagates ==
    RetryDone /\ Out.kind = "throw" =>
        /\ Out.error = LastThrown
        /\ Out.error # RetryExhaustedError

C16_Witness ==
    /\ RetryDone /\ Out.kind = "throw"
    /\ Out.attempts = Out.retryPolicy.max_attempts
    /\ Out.attempts >= 2
    /\ Out.opCalls = Out.attempts
    /\ Out.error.type = "std::logic_error"

C18_ObserverThenSleep ==
    /\ run.pc \in {"sleeping", "admitted"} /\ run.retryPolicy.present =>
          /\ run.slept = SleepTotal(run.retryPolicy, run.attempt)
          /\ run.observer =>
                run.notes = [i \in 1..(run.attempt - 1) |->
                               <<i, calculate_delay(run.retryPolicy, i)>>]
    /\ RetryDone =>
          /\ Out.slept = SleepTotal(Out.retryPolicy, Out.attempts)
          /\ Out.observer =>
                Out.notes = [i \in 1..(Out.attempts - 1) |->
                               <<i, calculate_delay(Out.retryPolicy, i)>>]

\* C19: in a composition with a retry policy the breaker is asked to admit
\* and is sent a report on every attempt: a run of max_attempts = m
\* attempts that are all admitted and all end with an error of the handled
\* kind raises the breaker's failureCount by exactly m.
C19_EveryAttemptCounts ==
    RetryDone /\ Out.kind = "throw" /\ OpRaised /\ Handled
        /\ Out.attempts = Out.retryPolicy.max_attempts
        /\ Out.opCalls = Out.attempts =>
        /\ Out.admissions = Out.attempts
        /\ Out.failureReports = Out.attempts
        /\ Out.successReports = 0
        /\ last.target # 0 => Post.failureCount = Out.count0 + Out.attempts

C19_Witness ==
    /\ RetryDone /\ Out.kind = "throw" /\ OpRaised /\ Handled
    /\ Out.attempts = Out.retryPolicy.max_attempts
    /\ Out.attempts >= 2
    /\ Out.opCalls = Out.attempts
    /\ last.target # 0
    /\ Out.count0 = 0
    /\ Post.failureThreshold = Out.attempts
    /\ Post.state = "open"

\* C20: when a retried run returns the operation's own value after earlier
\* attempts failed, and no other caller uses the breaker meanwhile, the
\* breaker is Closed with failureCount 0 when run returns.
C20_RetriedSuccessCloses ==
    RetryDone /\ Out.kind = "value" /\ Out.attempts > 1 /\ last.target # 0 =>
        /\ Post.state = "closed"
        /\ Post.failureCount = 0

C20_Witness ==
    /\ RetryDone /\ Out.kind = "value" /\ Out.attempts > 1
    /\ last.target # 0
    /\ last.pre.state = "half_open"
    /\ last.pre.failureCount > 0
    /\ Post.state = "closed"

\* ------------------------------------- claims on retry with other policies
\* C21 (as claimed): with a retry policy of max_attempts = m and a Value,
\* Callable or Default fallback, when every attempt is admitted and the
\* operation raises an error of the handled kind K each time, the operation
\* is invoked exactly m times, a Callable fallback is invoked exactly once
\* and run returns the fallback's value.
C21_RetryThenFallback ==
    RetryDone /\ OpRaised /\ Handled /\ Out.opCalls = Out.admissions
        /\ Out.fallbackPolicy \in {"value", "callable", "default"} =>
        /\ Out.opCalls = Out.retryPolicy.max_attempts
        /\ Out.kind # "throw"
        /\ Out.value = ValueOf(Out.fallbackPolicy)
        /\ Out.fallbackPolicy = "callable" => Out.fallbackCalls = 1

\* C22 (as claimed): with a retry policy and no fallback, when the first
\* invocation of the operation raises an error of the handled kind K whose
\* kind is not in the policy's retry_on set, the operation is invoked
\* exactly once and run raises cannot_obtain_value_exception.
C22_RejectedKindRaisesUnableToProduce ==
    RetryDone /\ OpRaised /\ Handled /\ Out.attempts = 1
        /\ Out.fallbackPolicy = "none"
        /\ Out.retryPolicy.predicate = "none"
        /\ Rejects(Out.retryPolicy, Out.opError, Out.attempts) =>
        /\ Out.opCalls = 1
        /\ Out.kind = "throw"
        /\ Out.error.type = CannotObtainValueException.type

\* C23 (as claimed): a run with a retry policy and no fallback on a breaker
\* that is Open and denies every admission request of the run never invokes
\* the operation and ends, after at most max_attempts admission requests,
\* by raising open_circuit_exception.
C23_OpenRetriedRunRaisesOpenCircuit ==
    RetryDone /\ Out.denied /\ Out.opCalls = 0 /\ Out.fallbackPolicy = "none" =>
        /\ Out.admissions <= Out.retryPolicy.max_attempts
        /\ Out.kind = "throw"
        /\ Out.error = OpenCircuitException

\* ---------------------------------------- further claims on the breaker
\* C24 (as claimed): at the entry of every admission decision, a breaker
\* that is Closed or HalfOpen has failureCount < failureThreshold.
C24_AdmissionEntryBelowThreshold ==
    Reached("on_execute_function") /\ last.pre.state \in {"closed", "half_open"} =>
        last.pre.failureCount < last.pre.failureThreshold

\* C24 (amended): at the entry of every admission decision, a breaker that
\* is Closed has failureCount < failureThreshold; a HalfOpen breaker keeps
\* the count it had when Open, which no admission changes.
C24_ClosedEntryBelowThreshold ==
    Reached("on_execute_function") =>
        /\ last.pre.state = "closed" =>
              last.pre.failureCount < last.pre.failureThreshold
        /\ Post.failureCount = last.pre.failureCount

C24_Witness ==
    /\ Reached("on_execute_function")
    /\ last.pre.state = "closed"
    /\ last.pre.failureCount > 0
    /\ last.pre.failureCount = last.pre.failureThreshold - 1

\* C25 (as claimed): with timeout (open_duration) 0, an admission request
\* to the Open breaker returns true and moves it to HalfOpen with no
\* waiting, also at the clock reading of the failure that opened it.
C25_ZeroDurationReadmitsAtOnce ==
    Reached("on_execute_function") /\ last.pre.state = "open"
        /\ last.pre.timeout = 0 =>
        last.ret = TRUE /\ Post.state = "half_open"

\* C25 (amended): with timeout 0, an admission request to the Open breaker
\* returns true and moves it to HalfOpen exactly when the clock reading is
\* later than that of the last failure; at the same clock reading it is
\* denied and the breaker stays Open.
C25_ZeroDurationReadmitsNextReading ==
    Reached("on_execute_function") /\ last.pre.state = "open"
        /\ last.pre.timeout = 0 =>
        IF last.t > last.pre.lastFailureTime
        THEN last.ret = TRUE /\ Post = [last.pre EXCEPT !.state = "half_open"]
        ELSE last.ret = FALSE /\ Post = last.pre

C25_Witness ==
    /\ Reached("on_execute_function")
    /\ last.pre.state = "open"
    /\ last.pre.timeout = 0
    /\ last.pre.failureCount = 1
    /\ last.t = last.pre.lastFailureTime + 1
    /\ Post.state = "half_open"

\* a run is issued in this step: a circuit is built and run up to the
\* admission decision of its first attempt
RunIssued == run = Idle /\ last' # last /\ last'.op \in {"run", "attempt", "on_execute_function"}

\* C26 (as claimed), for one denied run in the meantime: when the breaker
\* was opened by its last failure at t0 (failureCount has just reached the
\* threshold), a run without retry policy was then denied, and the next run
\* is issued at a time later than t0 + timeout, that run is admitted.
C26_DeniedRunDoesNotPostponeRecovery ==
    [][DeniedAtOnce /\ ~Out.retryPolicy.present /\ last.target # 0
          /\ last.pre.state = "open"
          /\ last.pre.failureCount = last.pre.failureThreshold
          /\ RunIssued
          /\ now > last.pre.lastFailureTime + last.pre.timeout
       => last'.ret = TRUE]_vars

\* -------------------------------------------- claims on concurrent callers
\* the breaker after call c, made alone on breaker b
Apply(b, c) ==
    CASE c.op = "on_success" -> on_success(b)
      [] c.op = "on_failure" -> on_failure(b, c.t)
      [] OTHER -> on_execute_function(b, c.t).cb
\* the breakers that the calls of the threads in S leave behind when they
\* are made one after the other on breaker b, in any order
RECURSIVE Serial(_, _)
Serial(b, S) ==
    IF S = {} THEN {b}
    ELSE UNION {Serial(Apply(b, threads[i]), S \ {i}) : i \in S}
Returned == {i \in DOMAIN threads : threads[i].pc = "done"}
Quiescent == \A i \in DOMAIN threads : threads[i].pc \in {"idle", "done"}

C28_ReferenceBehavesAsName ==
    RunDone =>
        /\ last.target = last.cb
        /\ Out.denied => cbs[last.cb].state = "open"

C30_GetValueFollowsTable ==
    last.op = "get_value" =>
        LET p == Out.policy
            r == Out.result IN
        /\ p.fallbackType = "DEFAULT" /\ is_default_constructible(Out.T) =>
              r.has_value /\ r.val = zero_of(Out.T)
        /\ p.fallbackType = "SPECIFIC_VALUE" =>
              IF p.specificValue.type = Out.T
              THEN r.has_value /\ r.val = p.specificValue.val
              ELSE ~r.has_value
        /\ p.fallbackType = "CALLABLE" =>
              /\ fallback.invoked = Out.invoked + 1
              /\ Out.f # Thrown =>
                    IF Out.f.type = Out.T
                    THEN r.has_value /\ r.val = Out.f.val
                    ELSE ~r.has_value
        /\ p.fallbackType # "CALLABLE" => fallback.invoked = Out.invoked

C30_Witness ==
    /\ last.op = "get_value"
    /\ Out.policy.fallbackType = "CALLABLE"
    /\ Out.invoked = 1
    /\ fallback.invoked = 2
    /\ Out.T = "int"
    /\ Out.result.has_value /\ Out.result.val = "42"

\* ---------------------------------------------------------------------
\* C31: a Callable fallback whose function raises makes get_value<T> yield
\* no value: the call returns an empty optional, the function has been
\* invoked once, and no error leaves the call.
C31_ThrowingCallableYieldsNoValue ==
    (/\ last.op = "get_value"
     /\ Out.policy.fallbackType = "CALLABLE"
     /\ Out.f = Thrown) =>
        /\ Out.result = nullopt(1)
        /\ ~last.ret
        /\ fallback.invoked = Out.invoked + 1

C31_Witness ==
    /\ last.op = "get_value"
    /\ Out.policy = with_callable
    /\ Out.f = Thrown
    /\ Out.T = "std::string"
    /\ ~Out.result.has_value
    /\ fallback.invoked = 2

\* ---------------------------------------------------------------------
\* a finished run under retry_policy(TestMaxAttempts).retry_if(odd) whose
\* operation was invoked twice and raised both times
TwoRaisedUnderOdd ==
    /\ RetryDone
    /\ Out.retryPolicy.predicate = "odd"
    /\ Out.retryPolicy.max_attempts = TestMaxAttempts
    /\ Out.opCalls = 2
    /\ Out.opError # NoError

C33_PredicateCalledOncePerFailedAttempt ==
    RetryDone /\ Out.retryPolicy.predicate # "none" =>
        Out.predicateCalls =
            IF Out.kind = "throw" THEN Out.attempts ELSE Out.attempts - 1

\* ---------------------------------------------------------------------
\* C34 (as claimed): in every reachable state a breaker that is Open has
\* failure_count >= failure_threshold.
C34_OpenImpliesCountAtThreshold ==
    \A i \in Insts :
        cbs[i].state = "open" => cbs[i].failureCount >= cbs[i].failureThreshold

\* C34 (amended): every step that takes a breaker to Open leaves
\* failure_count >= failure_threshold and the instant of the last failure
\* at the present clock reading; while the breaker stays Open its count
\* falls only by a reported success, which sets it to 0.
C34_OpenEntryAtThreshold ==
    [][\A i \in Insts :
          cbs'[i].state = "open" =>
              IF cbs[i].state # "open"
              THEN /\ cbs'[i].failureCount >= cbs'[i].failureThreshold
                   /\ cbs'[i].lastFailureTime = now
              ELSE \/ cbs'[i].failureCount >= cbs[i].failureCount
                   \/ /\ last'.op = "on_success"
                      /\ cbs'[i].failureCount = 0]_vars

\* a success reported while the breaker is Open, by a caller admitted before
\* the failures that opened it
C34_Witness ==
    /\ last.op = "on_success"
    /\ last.pre.state = "open"
    /\ last.pre.failureCount >= last.pre.failureThreshold
    /\ cbs[last.target].state = "open"
    /\ cbs[last.target].failureCount = 0

\* ---------------------------------------------------------------------
\* C35: first registration wins.  A create or a get for a name that is
\* registered leaves the registration and the registered breaker's
\* threshold, timeout, state and count as they were, and a get returns the
\* registered breaker; reports and admission requests made with any
\* breaker of that name act on the registered one and on no other; a get
\* for a name that is not registered registers a breaker with the default
\* threshold and timeout.
C35_FirstRegistrationWins ==
    [][\A n \in Names :
          LET id == circuitBreakers[n] IN
          /\ id # 0 /\ last'.name = n
                /\ last'.op \in {"create", "manager_create", "get"} =>
                /\ circuitBreakers'[n] = id
                /\ cbs'[id] = cbs[id]
                /\ last'.target = id
                /\ last'.op # "create" => last'.cb = id
          /\ id # 0 /\ last'.name = n
                /\ last'.op \in {"on_success", "on_failure", "on_execute_function"} =>
                /\ circuitBreakers'[n] = id
                /\ last'.target = id
                /\ \A j \in Insts : j # id => cbs'[j] = cbs[j]
          /\ id = 0 /\ last'.name = n /\ last'.op = "get" =>
                /\ circuitBreakers'[n] = last'.cb
                /\ cbs'[last'.cb] = new_circuit_breaker(n, DefaultThreshold, DefaultTimeout)]_vars

\* a second create for a registered name whose breaker has counted a
\* failure, with another threshold
C35_Witness ==
    /\ last.op = "create"
    /\ last.target # last.cb
    /\ cbs[last.target].failureCount > 0
    /\ cbs[last.cb].failureThreshold # cbs[last.target].failureThreshold
    /\ circuitBreakers[last.name] = last.target

\* ---------------------------------------------------------------------
\* C36: clear() empties the registry.  While no breaker is registered under
\* a name, a success or failure reported with a breaker of that name
\* changes no breaker, an admission request made with it returns false,
\* and a run of a composition holding it is denied without invoking its
\* operation; a create for the name registers the new breaker, which is
\* Closed with failure_count 0.
C36_ClearedBreakerIsNotServed ==
    [][/\ last'.op = "clear" => \A n \in Names : circuitBreakers'[n] = 0
       /\ last'.name \in Names /\ last' # last =>
            LET unregistered == circuitBreakers[last'.name] = 0 IN
            /\ unregistered
                  /\ last'.op \in {"on_success", "on_failure", "on_execute_function"} =>
                  /\ cbs' = cbs
                  /\ circuitBreakers' = circuitBreakers
                  /\ last'.op = "on_execute_function" => ~last'.ret
            /\ unregistered /\ last'.op = "run" /\ run = Idle =>
                  /\ cbs' = cbs
                  /\ last'.out.denied
                  /\ last'.out.kind = "throw"
                  /\ last'.out.opCalls = 0
            /\ unregistered /\ last'.op = "create" =>
                  /\ circuitBreakers'[last'.name] = last'.cb
                  /\ cbs'[last'.cb].state = "closed"
                  /\ cbs'[last'.cb].failureCount = 0]_vars

\* a run through a breaker that counted a failure while registered and was
\* dropped by clear()
C36_Witness ==
    /\ last.op = "run"
    /\ Out.denied
    /\ circuitBreakers[last.name] = 0
    /\ cbs[last.cb].state = "closed"
    /\ cbs[last.cb].failureCount = 1

\* ---------------------------------------------------------------------
\* min(initial * multiplier^(n-1), cap) for n >= 1, without any machine
\* arithmetic
ExactDelay(b, n) ==
    LET e == (bit_length(b.multiplier) - 1) * (n - 1) IN
    IF b.initial_delay = 0 THEN 0
    ELSE IF bit_length(b.initial_delay) + e > bit_length(b.max_delay) THEN b.max_delay
    ELSE Min(b.initial_delay * pow2(e), b.max_delay)

\* C37: for every attempt n >= 1 the exponential backoff returns
\* min(initial * multiplier^(n-1), cap); the delay is never negative, never
\* above cap, and not below the delay of attempt n - 1.
C37_ExponentialDelayIsCappedPower ==
    backoff.attempt >= 1 =>
        /\ backoff.delay = Ms(ExactDelay(backoff.strategy, backoff.attempt))
        /\ backoff.delay.m >= 0
        /\ backoff.delay.e = 0 /\ backoff.delay.m <= backoff.strategy.max_delay
        /\ backoff.attempt >= 2 =>
              backoff.previous.e = 0 /\ backoff.previous.m <= backoff.delay.m

\* ---------------------------------------------------------------------
\* C38: under every interleaving of execute calls and task completions the
\* number of tasks running at once never exceeds max_concurrent, and an
\* execute that finds max_concurrent tasks running is rejected and does not
\* run its function.
C38_RunningNeverExceedsLimit ==
    /\ Cardinality(Running) <= bulkhead.max_concurrent
    /\ last.op = "execute" /\ last.ret =>
          Cardinality(Running) < bulkhead.max_concurrent

\* ---------------------------------------------------------------------
\* C39: current_count always equals the number of accepted tasks that have
\* not finished: a task holds its slot from the moment execute takes it
\* until it returns or raises, a rejected execute takes none, and the count
\* is 0 whenever no accepted task is unfinished.
C39_CountIsUnfinishedAccepted ==
    /\ bulkhead.current_count = Cardinality(Accepted)
    /\ Accepted = {} => bulkhead.current_count = 0
    /\ last.op = "execute" /\ ~last.ret =>
          bulkhead.calls[last.cb].pc = "idle" /\ last.cb \notin Accepted

\* every caller's task has finished, one by raising, after a call had been
\* rejected
C39_Witness ==
    /\ bulkhead # NoBulkhead
    /\ last.op = "task_exit"
    /\ Accepted = {}
    /\ \E i, j \in DOMAIN bulkhead.calls :
          /\ bulkhead.calls[i].outcome = "raised"
          /\ bulkhead.calls[j].outcome = "rejected"
    /\ \A i \in DOMAIN bulkhead.calls : bulkhead.calls[i].pc = "idle"
    /\ bulkhead.current_count = 0

====
